---- MODULE Spec2Model ----
(***************************************************************************)
(* Model of cwe_DEM_Composite_TNRIS_v2.py: the TNRIS terrain harvest       *)
(* workflow (intersection, tile resolution, staging-directory clear,       *)
(* URL construction, pooled download, prune, raster merge).                *)
(*                                                                         *)
(* Strings are sequences of tokens (a token is one character or one        *)
(* literal chunk of the source), so concatenation is \o and the regular    *)
(* expression scans tokens.  A path is a sequence of names.                *)
(***************************************************************************)
EXTENDS Integers, Sequences, FiniteSets, TLC

\* ------------------------------------------------------------------ bounds
MaxRecords == 2        \* records in the Intersection Result (df3)
PoolSize == 1          \* worker threads of the pool (10 in the script)
MaxUnlinkFail == 1     \* os.unlink calls that raise in one delete loop
MaxPrior == 1          \* entries already in the staging directory

\* ------------------------------------------------------- program constants
TileDigits == 7        \* r'\d{7}'

None == "None_object"   \* a null attribute value
Unbound == <<>>         \* a name no statement has assigned yet
NoError == [cell |-> "", exc |-> ""]

Digit == {"0", "1", "2", "3", "4", "5", "6", "7", "8", "9"}

\* ---------------------------------------------------------------- 2.0 paths
strIntersectionPath ==
    << <<"C:">>, <<"LandDev">>, <<"Research_Park">>, <<"TerrainHarvest">>,
       <<"Merge_AR.shp">> >>

strDEMDownloadPath ==
    << <<"C:">>, <<"LandDev">>, <<"Research_Park">>, <<"TerrainHarvest">> >>

strOutTiffPath ==
    << <<"C:">>, <<"LandDev">>, <<"Research_Park">>, <<"TerrainHarvest">>,
       <<"dem_merge.tif">> >>

\* os.path.join(directory, filename)
PathJoin(dirpath, filename) == Append(dirpath, filename)

\* os.listdir(directory) over a file system f (a function path -> entry)
ListDir(f, dirpath) ==
    { p[Len(p)] : p \in { q \in DOMAIN f :
                            /\ Len(q) = Len(dirpath) + 1
                            /\ SubSeq(q, 1, Len(dirpath)) = dirpath } }

\* os.path.isfile(p) or os.path.islink(p)
IsFileOrLink(f, p) == p \in DOMAIN f /\ f[p].kind # "dir"

\* the file system after unlinking the paths of gone
Unlink(f, gone) == [p \in (DOMAIN f) \ gone |-> f[p]]

\* the file system after writing the entries of new (overwriting)
WriteFiles(f, new) ==
    [p \in (DOMAIN f) \cup (DOMAIN new) |-> IF p \in DOMAIN new THEN new[p] ELSE f[p]]

\* ------------------------------------------------------- 6.0 lookup tables
GUIDswitcher ==
    [k \in {"stratmap-2017-50cm-central-texas", "stratmap-2009-50cm-tarrant",
            "stratmap09-1m-dallas", "lcra-2007-140cm",
            "stratmap-2017-50cm-jefferson", "fema-2016-70cm-dewitt",
            "stratmap-2011-50cm-blanco-kendall-kerr"} |->
        CASE k = "stratmap-2017-50cm-central-texas" -> "0549d3ba-3f72-4710-b26c-28c65df9c70d"
          [] k = "stratmap-2009-50cm-tarrant" -> "7bc5f57d-f679-454f-8fd3-bdffc8d54272"
          [] k = "stratmap09-1m-dallas" -> "9aba8b42-4a55-4687-95aa-5a7cf75c970a"
          [] k = "lcra-2007-140cm" -> "ab743202-206c-4c37-99b1-9a46db93bd4c"
          [] k = "stratmap-2017-50cm-jefferson" -> "12342f12-2d74-44c4-9f00-a5c12ac2659c"
          [] k = "fema-2016-70cm-dewitt" -> "4bd279fc-e358-4cdb-abc0-4e34516b21d3"
          [] k = "stratmap-2011-50cm-blanco-kendall-kerr" -> "760f9068-426e-4c30-9829-177259d1da0f"]

TileHeaderswitcher ==
    [k \in {"stratmap-2017-50cm-central-texas", "stratmap09-50cm-tarrant",
            "stratmap09-1m-dallas", "lcra07-140cm",
            "stratmap-2017-50cm-jefferson", "fema-2016-70cm-dewitt",
            "stratmap-2011-50cm-blanco-kendall-kerr"} |->
        CASE k = "stratmap-2017-50cm-central-texas" -> "stratmap17-50cm-central-texas"
          [] k = "stratmap09-50cm-tarrant" -> "stratmap09-50cm-tarrant"
          [] k = "stratmap09-1m-dallas" -> "stratmap09-1m-dallas"
          [] k = "lcra07-140cm" -> "lcra07-140cm"
          [] k = "stratmap-2017-50cm-jefferson" -> "stratmap17-50cm-jefferson"
          [] k = "fema-2016-70cm-dewitt" -> "fema16-70cm-dewitt"
          [] k = "stratmap-2011-50cm-blanco-kendall-kerr" -> "stratmap11-50cm-blanco-kendall-kerr"]

\* switcher.get(argument, "Nothing_Found")
getTNRIS_GUID(argument) ==
    IF argument \in DOMAIN GUIDswitcher THEN GUIDswitcher[argument] ELSE "Nothing_Found"

getTNRIS_TileHeader(argument) ==
    IF argument \in DOMAIN TileHeaderswitcher THEN TileHeaderswitcher[argument]
    ELSE "Nothing_Found"

\* str(x)
Str(x) == IF x = None THEN "None" ELSE x

\* ------------------------------------------- 4.0 tile identifier extraction
\* the pattern \d{7} matches at position p of s
MatchAt(s, p) ==
    /\ p + TileDigits - 1 <= Len(s)
    /\ \A k \in p..(p + TileDigits - 1) : s[k] \in Digit

\* strTileRegex.search(i): the leftmost match object, or None
\* (isNone: .group() raises AttributeError)
RegexSearch(s) ==
    IF \E p \in 1..Len(s) : MatchAt(s, p)
    THEN LET p == CHOOSE q \in 1..Len(s) :
                     MatchAt(s, q) /\ \A r \in 1..(q - 1) : ~MatchAt(s, r)
         IN  [isNone |-> FALSE, group |-> SubSeq(s, p, p + TileDigits - 1)]
    ELSE [isNone |-> TRUE, group |-> <<>>]

\* python dict assignment dct[k] = v on an insertion-ordered dict
DictSet(dct, k, v) ==
    IF \E j \in 1..Len(dct) : dct[j][1] = k
    THEN [j \in 1..Len(dct) |-> IF dct[j][1] = k THEN <<k, v>> ELSE dct[j]]
    ELSE Append(dct, <<k, v>>)

RECURSIVE DictComprehension(_, _, _)
\* {listDEMname[i]: listDIRName[i] for i in range(n)}
DictComprehension(keys, vals, n) ==
    IF n = 0 THEN <<>>
    ELSE DictSet(DictComprehension(keys, vals, n - 1), keys[n], vals[n])

\* dictResults.get(k, 0)
DictGet(dct, k) ==
    IF \E j \in 1..Len(dct) : dct[j][1] = k
    THEN dct[CHOOSE j \in 1..Len(dct) : dct[j][1] = k][2]
    ELSE 0

\* ---------------------------------------------------- 6.0 URL construction
\* BuildURL with the tile header taken from the GUID table
BuildURL_headerFromGUID(dct, i) ==
    <<"https://s3.amazonaws.com/data.tnris.org/">>
        \o <<getTNRIS_GUID(Str(DictGet(dct, i)))>>
        \o <<"/resources/">>
        \o <<getTNRIS_GUID(Str(DictGet(dct, i)))>>
        \o <<"_">> \o i \o <<"_dem.zip">>

\* the body of the urls loop for key i of dictResults
BuildURL(dct, i) ==
    <<"https://s3.amazonaws.com/data.tnris.org/">>
        \o <<getTNRIS_GUID(Str(DictGet(dct, i)))>>
        \o <<"/resources/">>
        \o <<getTNRIS_TileHeader(Str(DictGet(dct, i)))>>
        \o <<"_">> \o i \o <<"_dem.zip">>

\* --------------------------------------------------------- the environment
\* Records of the tile index that the overlay can return (demname, dirname)
\* and the column of the raster grid the tile covers.
Index ==
    { [demname |-> <<"a", "1", "2", "3", "4", "5", "6", "7", "a", "1">>,
       dirname |-> "stratmap-2017-50cm-central-texas", col |-> 1],
      [demname |-> <<"a", "1", "2", "3", "4", "5", "6", "7", "a", "2">>,
       dirname |-> "stratmap-2017-50cm-central-texas", col |-> 2],
      [demname |-> <<"j", "1", "2", "3", "4", "5", "6", "7", "a", "1">>,
       dirname |-> "stratmap-2017-50cm-jefferson", col |-> 1],
      [demname |-> <<"t", "7", "6", "5", "4", "3", "2", "1", "a", "1">>,
       dirname |-> "stratmap-2009-50cm-tarrant", col |-> 4],
      [demname |-> <<"u", "7", "6", "5", "4", "3", "2", "1", "a", "1">>,
       dirname |-> "usgs-2018-70cm-south-central", col |-> 5],
      [demname |-> <<"a", "2", "9", "9", "6", "1", "6", "3", "b", "1">>,
       dirname |-> "stratmap-2017-50cm-central-texas", col |-> 7],
      [demname |-> <<"n", "o", "d", "e", "m">>,
       dirname |-> "stratmap-2017-50cm-central-texas", col |-> 6],
      [demname |-> <<"a", "1", "2", "3", "4", "5", "6", "7", "_",
                     "7", "6", "5", "4", "3", "2", "1">>,
       dirname |-> "stratmap-2017-50cm-central-texas", col |-> 3] }

Entry(kind, col) == [kind |-> kind, col |-> col]

\* what may lie in the staging directory before the run
PriorEntries ==
    { <<PathJoin(strDEMDownloadPath, <<"old_run">>), Entry("dir", 0)>>,
      <<PathJoin(strDEMDownloadPath, <<"notes.txt">>), Entry("other", 0)>>,
      <<strOutTiffPath, Entry("raster", 9)>> }

\* the file system holding the pairs of S
FsOf(S) == [p \in {e[1] : e \in S} |-> (CHOOSE e \in S : e[1] = p)[2]]

\* The remote service: the archive behind a URL holds the rasters of every
\* index tile of that dataset and 7-digit tile number, plus one sidecar.
\* A URL with no archive behind it returns an error body.
ServedDatasets == (DOMAIN GUIDswitcher) \cap (DOMAIN TileHeaderswitcher)

ServedURL(r) ==
    <<"https://s3.amazonaws.com/data.tnris.org/", GUIDswitcher[r.dirname],
      "/resources/", TileHeaderswitcher[r.dirname], "_">>
        \o RegexSearch(r.demname).group \o <<"_dem.zip">>

RemoteArchive(url) ==
    LET tiles == { r \in Index : /\ r.dirname \in ServedDatasets
                                /\ ~RegexSearch(r.demname).isNone
                                /\ ServedURL(r) = url }
    IN  IF tiles = {} THEN {}
        ELSE { <<PathJoin(strDEMDownloadPath, r.demname \o <<".img">>),
                 Entry("raster", r.col)>> : r \in tiles }
             \cup { <<PathJoin(strDEMDownloadPath, <<"metadata.xml">>),
                      Entry("other", 0)>> }

\* ------------------------------------------------------------------- state
VARIABLES
    pc,           \* the cell the main thread executes next
    err,          \* the uncaught exception, if any
    df3,          \* the Intersection Result
    fs,           \* the file system: path -> entry
    listDEMname,  \* z: the tile ids extracted so far
    dictResults,  \* insertion-ordered dict: sequence of <<tile id, dirname>>
    urls,         \* the list of download URLs
    task,         \* pool task per URL: queued, running, ok, failed, dropped, killed
    attempts,     \* requests.get calls per URL
    outqueue,     \* completed tasks the main thread has not consumed
    i,            \* the counter of the results loop
    c,            \* the expected file names
    dem_files,    \* the result of glob
    d,            \* the opened raster sources
    src,          \* the loop variable of the open loop (Unbound or <<name>>)
    out_meta,     \* Unbound or <<metadata>>
    mosaic,       \* Unbound or <<[shape, trans]>>
    written       \* the data sets written to strOutTiffPath

vars == <<pc, err, df3, fs, listDEMname, dictResults, urls, task, attempts,
          outqueue, i, c, dem_files, d, src, out_meta, mosaic, written>>

SeqsUpTo(S, n) == UNION { [1..k -> S] : k \in 0..n }

Init ==
    /\ pc = "In8"
    /\ err = NoError
    /\ df3 \in SeqsUpTo(Index, MaxRecords)
    /\ \E prior \in SUBSET PriorEntries :
          /\ Cardinality(prior) <= MaxPrior
          /\ fs = FsOf(prior)
    /\ listDEMname = <<>>
    /\ dictResults = <<>>
    /\ urls = <<>>
    /\ task = <<>>
    /\ attempts = <<>>
    /\ outqueue = <<>>
    /\ i = 0
    /\ c = <<>>
    /\ dem_files = <<>>
    /\ d = <<>>
    /\ src = Unbound
    /\ out_meta = Unbound
    /\ mosaic = Unbound
    /\ written = <<>>

\* an uncaught exception in cell: the script stops there
Raise(cell, exc) ==
    /\ pc' = "raised"
    /\ err' = [cell |-> cell, exc |-> exc]

\* In[8]: df3.to_file(strIntersectionPath)
In8_ToFile ==
    /\ pc = "In8"
    /\ fs' = WriteFiles(fs, FsOf({<<strIntersectionPath, Entry("other", 0)>>}))
    /\ pc' = "In10"
    /\ UNCHANGED <<err, df3, listDEMname, dictResults, urls, task, attempts,
                   outqueue, i, c, dem_files, d, src, out_meta, mosaic, written>>

\* In[10] with a guard that skips a demname without a match
In10_Resolve_skipping ==
    /\ pc = "In10"
    /\ LET n == Len(df3)
           good == SelectSeq([m \in 1..n |-> df3[m]],
                             LAMBDA r : ~RegexSearch(r.demname).isNone)
           z == [m \in 1..Len(good) |-> RegexSearch(good[m].demname).group]
           listDIRName == [m \in 1..n |-> df3[m].dirname]
       IN  /\ listDEMname' = z
           /\ dictResults' = DictComprehension(z, listDIRName, Len(z))
           /\ pc' = "In11"
           /\ UNCHANGED err
    /\ UNCHANGED <<df3, fs, urls, task, attempts, outqueue, i, c, dem_files,
                   d, src, out_meta, mosaic, written>>

\* In[10]: the tile id of every demname, then dictResults
In10_Resolve ==
    /\ pc = "In10"
    /\ LET n == Len(df3)
           bad == { k \in 1..n : RegexSearch(df3[k].demname).isNone }
       IN  IF bad # {}
           THEN LET k == CHOOSE m \in bad : \A q \in bad : m <= q
                IN  /\ listDEMname' =
                          [m \in 1..(k - 1) |-> RegexSearch(df3[m].demname).group]
                    /\ Raise("In10", "AttributeError")
                    /\ UNCHANGED dictResults
           ELSE LET z == [m \in 1..n |-> RegexSearch(df3[m].demname).group]
                    listDIRName == [m \in 1..n |-> df3[m].dirname]
                IN  /\ listDEMname' = z
                    /\ dictResults' = DictComprehension(z, listDIRName, n)
                    /\ pc' = "In11"
                    /\ UNCHANGED err
    /\ UNCHANGED <<df3, fs, urls, task, attempts, outqueue, i, c, dem_files,
                   d, src, out_meta, mosaic, written>>

\* the delete loops: every listed name in victims that is a file or a link
\* is unlinked; an unlink that raises is reported and the loop goes on
DeleteLoop(victims) ==
    LET files == { PathJoin(strDEMDownloadPath, f) : f \in victims }
        dels == { p \in files : IsFileOrLink(fs, p) }
    IN  \E failed \in SUBSET dels :
            /\ Cardinality(failed) <= MaxUnlinkFail
            /\ fs' = Unlink(fs, dels \ failed)

\* In[11]: clear the staging directory
In11_Clear ==
    /\ pc = "In11"
    /\ DeleteLoop(ListDir(fs, strDEMDownloadPath))
    /\ pc' = "In15"
    /\ UNCHANGED <<err, df3, listDEMname, dictResults, urls, task, attempts,
                   outqueue, i, c, dem_files, d, src, out_meta, mosaic, written>>

\* In[15]: one URL per key of dictResults
In15_BuildURLs ==
    /\ pc = "In15"
    /\ urls' = [j \in 1..Len(dictResults) |-> BuildURL(dictResults, dictResults[j][1])]
    /\ pc' = "In16"
    /\ UNCHANGED <<err, df3, fs, listDEMname, dictResults, task, attempts,
                   outqueue, i, c, dem_files, d, src, out_meta, mosaic, written>>

\* ------------------------------------------------------ In[16]: the pool
Running == { t \in 1..Len(task) : task[t] = "running" }
Queued == { t \in 1..Len(task) : task[t] = "queued" }

\* results = ThreadPool(10).imap_unordered(funcDownloadTiles, urls)
In16_StartPool ==
    /\ pc = "In16"
    /\ task' = [t \in 1..Len(urls) |-> "queued"]
    /\ attempts' = [t \in 1..Len(urls) |-> 0]
    /\ outqueue' = <<>>
    /\ i' = 0
    /\ pc' = "In16_for"
    /\ UNCHANGED <<err, df3, fs, listDEMname, dictResults, urls, c, dem_files,
                   d, src, out_meta, mosaic, written>>

\* a free worker takes the next task of the queue and calls
\* funcDownloadTiles: r = requests.get(tileURL)
WorkerStart ==
    /\ pc \in {"In16_for", "raised"}
    /\ Queued # {}
    /\ Cardinality(Running) < PoolSize
    /\ LET t == CHOOSE q \in Queued : \A r \in Queued : q <= r
       IN  /\ task' = [task EXCEPT ![t] = "running"]
           /\ attempts' = [attempts EXCEPT ![t] = @ + 1]
    /\ UNCHANGED <<pc, err, df3, fs, listDEMname, dictResults, urls, outqueue,
                   i, c, dem_files, d, src, out_meta, mosaic, written>>

\* funcDownloadTiles returns: zipfile.ZipFile(...).extractall(strDEMDownloadPath)
WorkerExtract(t) ==
    /\ pc \in {"In16_for", "raised"}
    /\ task[t] = "running"
    /\ RemoteArchive(urls[t]) # {}
    /\ fs' = WriteFiles(fs, FsOf(RemoteArchive(urls[t])))
    /\ task' = [task EXCEPT ![t] = "ok"]
    /\ outqueue' = Append(outqueue, t)
    /\ UNCHANGED <<pc, err, df3, listDEMname, dictResults, urls, attempts, i,
                   c, dem_files, d, src, out_meta, mosaic, written>>

\* funcDownloadTiles raises: the request fails, the body is no zip archive
\* (always so when no archive is behind the URL), or the extraction fails
WorkerFail(t) ==
    /\ pc \in {"In16_for", "raised"}
    /\ task[t] = "running"
    /\ task' = [task EXCEPT ![t] = "failed"]
    /\ outqueue' = Append(outqueue, t)
    /\ UNCHANGED <<pc, err, df3, fs, listDEMname, dictResults, urls, attempts,
                   i, c, dem_files, d, src, out_meta, mosaic, written>>

\* for strRequestedTile in results: the next completed task; the exception
\* of a failed task is raised again in the main thread
MainNext ==
    /\ pc = "In16_for"
    /\ outqueue # <<>>
    /\ outqueue' = Tail(outqueue)
    /\ IF task[Head(outqueue)] = "ok"
       THEN /\ i' = i + 1
            /\ UNCHANGED <<pc, err>>
       ELSE /\ Raise("In16", "worker exception")
            /\ UNCHANGED i
    /\ UNCHANGED <<df3, fs, listDEMname, dictResults, urls, task, attempts, c,
                   dem_files, d, src, out_meta, mosaic, written>>

\* the results iterator is exhausted: print("Complete")
MainComplete ==
    /\ pc = "In16_for"
    /\ i = Len(urls)
    /\ pc' = "In17"
    /\ UNCHANGED <<err, df3, fs, listDEMname, dictResults, urls, task, attempts,
                   outqueue, i, c, dem_files, d, src, out_meta, mosaic, written>>

\* the interpreter exits on the uncaught exception: the pool is terminated,
\* its queue drained, and the daemon worker threads die where they are
InterpreterExit ==
    /\ pc = "raised"
    /\ pc' = "exited"
    /\ task' = [t \in 1..Len(task) |->
                   CASE task[t] = "queued" -> "dropped"
                     [] task[t] = "running" -> "killed"
                     [] OTHER -> task[t]]
    /\ UNCHANGED <<err, df3, fs, listDEMname, dictResults, urls, attempts,
                   outqueue, i, c, dem_files, d, src, out_meta, mosaic, written>>

\* ------------------------------------------------------ 7.0 prune
\* In[17]: c = [i + '.img' for i in df3['demname']]
In17_Names ==
    /\ pc = "In17"
    /\ c' = [k \in 1..Len(df3) |-> df3[k].demname \o <<".img">>]
    /\ pc' = "In18"
    /\ UNCHANGED <<err, df3, fs, listDEMname, dictResults, urls, task, attempts,
                   outqueue, i, dem_files, d, src, out_meta, mosaic, written>>

Range(s) == { s[k] : k \in 1..Len(s) }

\* In[18]: remove every file whose name is not in c
In18_Prune ==
    /\ pc = "In18"
    /\ DeleteLoop({ f \in ListDir(fs, strDEMDownloadPath) : f \notin Range(c) })
    /\ pc' = "In19"
    /\ UNCHANGED <<err, df3, listDEMname, dictResults, urls, task, attempts,
                   outqueue, i, c, dem_files, d, src, out_meta, mosaic, written>>

\* ------------------------------------------------------ 8.0 merge
Orderings(S) ==
    { s \in [1..Cardinality(S) -> S] :
        \A a, b \in 1..Cardinality(S) : a # b => s[a] # s[b] }

\* In[19]: dem_files = glob.glob(os.path.join(strDEMDownloadPath, "*")),
\* in the order the directory scan yields
In19_Glob ==
    /\ pc = "In19"
    /\ dem_files' \in Orderings({ PathJoin(strDEMDownloadPath, f) :
                                    f \in ListDir(fs, strDEMDownloadPath) })
    /\ pc' = "In20"
    /\ UNCHANGED <<err, df3, fs, listDEMname, dictResults, urls, task, attempts,
                   outqueue, i, c, d, src, out_meta, mosaic, written>>

\* rasterio.open that opens whatever it is given
RasterioOpens_anything(entry) == TRUE

\* rasterio.open(file) returns a data set for a raster file and raises
\* for a directory or a file that is no raster
RasterioOpens(entry) == entry.kind = "raster"

\* the data set rasterio.open returns
DataSet(path, entry) ==
    [name |-> path,
     meta |-> [driver |-> "HFA", height |-> 1, width |-> 1, transform |-> entry.col]]

\* In[20]: d = [rasterio.open(file) for file in dem_files]
In20_Open ==
    /\ pc = "In20"
    /\ LET n == Len(dem_files)
           bad == { k \in 1..n : ~RasterioOpens(fs[dem_files[k]]) }
           upto == IF bad = {} THEN n
                   ELSE (CHOOSE m \in bad : \A q \in bad : m <= q) - 1
       IN  /\ d' = [k \in 1..upto |-> DataSet(dem_files[k], fs[dem_files[k]])]
           /\ src' = IF upto = 0 THEN Unbound
                     ELSE <<DataSet(dem_files[upto], fs[dem_files[upto]])>>
           /\ IF bad = {} THEN pc' = "In21" /\ UNCHANGED err
              ELSE Raise("In20", "RasterioIOError")
    /\ UNCHANGED <<df3, fs, listDEMname, dictResults, urls, task, attempts,
                   outqueue, i, c, dem_files, out_meta, mosaic, written>>

\* In[21]: show(d[0], ...); show(d[1], ...)
In21_Plot ==
    /\ pc = "In21"
    /\ IF Len(d) >= 2 THEN pc' = "In23" /\ UNCHANGED err
       ELSE Raise("In21", "IndexError")
    /\ UNCHANGED <<df3, fs, listDEMname, dictResults, urls, task, attempts,
                   outqueue, i, c, dem_files, d, src, out_meta, mosaic, written>>

\* In[22], In[23]: d[0].meta; out_meta = src.meta.copy()
In23_Meta ==
    /\ pc = "In23"
    /\ IF d = <<>> THEN Raise("In22", "IndexError") /\ UNCHANGED out_meta
       ELSE IF src = Unbound THEN Raise("In23", "NameError") /\ UNCHANGED out_meta
       ELSE /\ out_meta' = <<src[1].meta>>
            /\ pc' = "In24"
            /\ UNCHANGED err
    /\ UNCHANGED <<df3, fs, listDEMname, dictResults, urls, task, attempts,
                   outqueue, i, c, dem_files, d, src, mosaic, written>>

Min(S) == CHOOSE x \in S : \A y \in S : x <= y
Max(S) == CHOOSE x \in S : \A y \in S : x >= y

\* rasterio.merge.merge(datasets): the array covering every source and the
\* transform of its upper left corner
Merge(datasets) ==
    LET cols == { datasets[k].meta.transform : k \in 1..Len(datasets) }
    IN  [shape |-> <<1, 1, Max(cols) - Min(cols) + 1>>,
         sources |-> { datasets[k].name : k \in 1..Len(datasets) },
         trans |-> Min(cols)]

\* In[24]: mosaic, out_trans = merge(d)
In24_Merge ==
    /\ pc = "In24"
    /\ IF d = <<>> THEN Raise("In24", "IndexError") /\ UNCHANGED mosaic
       ELSE /\ mosaic' = <<Merge(d)>>
            /\ pc' = "In25"
            /\ UNCHANGED err
    /\ UNCHANGED <<df3, fs, listDEMname, dictResults, urls, task, attempts,
                   outqueue, i, c, dem_files, d, src, out_meta, written>>

\* In[25]: out_meta.update({driver, height, width, transform})
In25_UpdateMeta ==
    /\ pc = "In25"
    /\ out_meta' = <<[out_meta[1] EXCEPT !.driver = "HFA",
                                         !.height = mosaic[1].shape[2],
                                         !.width = mosaic[1].shape[3],
                                         !.transform = mosaic[1].trans]>>
    /\ pc' = "In26"
    /\ UNCHANGED <<err, df3, fs, listDEMname, dictResults, urls, task, attempts,
                   outqueue, i, c, dem_files, d, src, mosaic, written>>

\* In[26]: with rasterio.open(strOutTiffPath, "w", **out_meta) as dest:
\*             dest.write(mosaic)
In26_Write ==
    /\ pc = "In26"
    /\ written' = Append(written, [meta |-> out_meta[1], data |-> mosaic[1]])
    /\ fs' = WriteFiles(fs, FsOf({<<strOutTiffPath, Entry("raster", mosaic[1].trans)>>}))
    /\ pc' = "done"
    /\ UNCHANGED <<err, df3, listDEMname, dictResults, urls, task, attempts,
                   outqueue, i, c, dem_files, d, src, out_meta, mosaic>>

Next ==
    \/ In8_ToFile
    \/ In10_Resolve
    \/ In11_Clear
    \/ In15_BuildURLs
    \/ In16_StartPool
    \/ WorkerStart
    \/ \E t \in 1..Len(task) : WorkerExtract(t)
    \/ \E t \in 1..Len(task) : WorkerFail(t)
    \/ MainNext
    \/ MainComplete
    \/ InterpreterExit
    \/ In17_Names
    \/ In18_Prune
    \/ In19_Glob
    \/ In20_Open
    \/ In21_Plot
    \/ In23_Meta
    \/ In24_Merge
    \/ In25_UpdateMeta
    \/ In26_Write

Spec == Init /\ [][Next]_vars

TypeOK ==
    /\ pc \in {"In8", "In10", "In11", "In15", "In16", "In16_for", "In17", "In18",
               "In19", "In20", "In21", "In23", "In24", "In25", "In26", "done",
               "raised", "exited"}
    /\ Len(task) = Len(attempts)
    /\ Len(written) <= 1

\* ================================================================ claims
Sentinel == "Nothing_Found"
Terminated == pc \in {"done", "exited"}
StagedNames == ListDir(fs, strDEMDownloadPath)
ExpectedNames == { df3[k].demname \o <<".img">> : k \in 1..Len(df3) }

\* the cells at or after which the urls list is complete
UrlsBuilt ==
    \/ pc \in {"In16", "In16_for", "In17", "In18", "In19", "In20", "In21",
               "In23", "In24", "In25", "In26", "done"}
    \/ pc \in {"raised", "exited"} /\ err.cell # "In10"

\* the states between the end of the prune loop and the write of the output
AfterPrune ==
    \/ pc \in {"In19", "In20", "In21", "In23", "In24", "In25", "In26"}
    \/ pc \in {"raised", "exited"}
         /\ err.cell \in {"In20", "In21", "In22", "In23", "In24"}

\* ---- C1
\* C1: every URL handed to the pool is attempted exactly once and its attempt
\* runs to completion (success or failure), whatever the other attempts do:
\* when the run is over no task was left unattempted or cut off.
C1_EveryUrlAttemptedOnce ==
    (Terminated /\ Len(task) > 0) =>
        \A t \in 1..Len(task) :
            attempts[t] = 1 /\ task[t] \in {"ok", "failed"}

\* ---- C2
\* the table values of the script, written out per dataset name
C2_GUID(ds) ==
    CASE ds = "stratmap-2017-50cm-central-texas" -> "0549d3ba-3f72-4710-b26c-28c65df9c70d"
      [] ds = "stratmap-2017-50cm-jefferson" -> "12342f12-2d74-44c4-9f00-a5c12ac2659c"
      [] ds = "stratmap-2009-50cm-tarrant" -> "7bc5f57d-f679-454f-8fd3-bdffc8d54272"
      [] OTHER -> Sentinel

C2_Header(ds) ==
    CASE ds = "stratmap-2017-50cm-central-texas" -> "stratmap17-50cm-central-texas"
      [] ds = "stratmap-2017-50cm-jefferson" -> "stratmap17-50cm-jefferson"
      [] OTHER -> Sentinel

C3_StagedExactlyExpected ==
    pc = "In19" => StagedNames = ExpectedNames

\* ---- C4
\* C4: every path the glob hands to rasterio.open is a file (no directory)
\* named demname + '.img' for some record of the Intersection Result.
C4_MergeInputsExpected ==
    \A k \in 1..Len(dem_files) :
        /\ dem_files[k][Len(dem_files[k])] \in ExpectedNames
        /\ fs[dem_files[k]].kind # "dir"

\* ---- C5
RECURSIVE C5_FindAll(_, _)
\* the number of matches re.findall(r'\d{7}', s) reports from position p on
C5_FindAll(s, p) ==
    IF p > Len(s) THEN 0
    ELSE IF MatchAt(s, p) THEN 1 + C5_FindAll(s, p + TileDigits)
    ELSE C5_FindAll(s, p + 1)

\* C5: a tile identifier is produced for a record only when its demname holds
\* exactly one 7-digit match; no match or several matches produce none.
C5_OnlyUniqueMatchResolves ==
    \A k \in 1..Len(listDEMname) : C5_FindAll(df3[k].demname, 1) = 1

\* ---- C6
C6_InputError == \E k \in 1..Len(df3) : RegexSearch(df3[k].demname).isNone
C6_ResolutionError ==
    \E j \in 1..Len(dictResults) :
        \/ getTNRIS_GUID(dictResults[j][2]) = Sentinel
        \/ getTNRIS_TileHeader(dictResults[j][2]) = Sentinel
C6_NoRequest == \A t \in 1..Len(attempts) : attempts[t] = 0

\* C6 as stated: with an unresolvable dataset name or a demname without the
\* digit pattern, no network request is ever issued.
C6_FailFast == (C6_InputError \/ C6_ResolutionError) => C6_NoRequest

\* C6 as amended: with a demname without the digit pattern no network request
\* is ever issued and the pool is never started.
C6_FailFastOnInputError ==
    C6_InputError => (C6_NoRequest /\ task = <<>> /\ pc # "In16_for")

\* a run stopped by the missing pattern in the resolve cell
C6_Witness ==
    /\ C6_InputError
    /\ pc = "exited"
    /\ err = [cell |-> "In10", exc |-> "AttributeError"]

\* ---- C7
C7_NoRasterStaged ==
    \A f \in StagedNames : fs[PathJoin(strDEMDownloadPath, f)].kind # "raster"

\* C7: when no raster file is in the staging directory after the prune, the
\* run gets no further than the open and plot cells, where it stops on an
\* exception, and nothing is written to strOutTiffPath.
C7_EmptyMergeFails ==
    (AfterPrune /\ C7_NoRasterStaged) =>
        /\ written = <<>>
        /\ pc \in {"In19", "In20", "In21", "raised", "exited"}
        /\ pc \in {"raised", "exited"} => err.cell \in {"In20", "In21"}

\* a run that ended on the exception with no raster staged
C7_Witness ==
    /\ pc = "exited"
    /\ AfterPrune
    /\ C7_NoRasterStaged
    /\ written = <<>>

\* ---- C8
\* C8: from the cell after to_file on, the intersection layer stays at
\* strIntersectionPath.
C8_IntersectionPersists ==
    pc # "In8" => strIntersectionPath \in DOMAIN fs

\* ---- C9
\* C9: no URL carries a real GUID with the sentinel tile header or the
\* sentinel GUID with a real tile header.
C9_TablesAgree ==
    \A j \in 1..Len(urls) : (urls[j][2] = Sentinel) <=> (urls[j][4] = Sentinel)

\* ---- C10
\* C10: a run whose glob found n >= 1 entries, all of them raster files of
\* the Intersection Result, ends with exactly one data set written to
\* strOutTiffPath, whose height, width and transform are the mosaic's.
C10_MergeReached ==
    ( /\ Terminated
      /\ Len(dem_files) >= 1
      /\ \A k \in 1..Len(dem_files) :
            /\ dem_files[k][Len(dem_files[k])] \in ExpectedNames
            /\ fs[dem_files[k]].kind = "raster" )
    => /\ Len(written) = 1
       /\ written[1].meta.height = written[1].data.shape[2]
       /\ written[1].meta.width = written[1].data.shape[3]
       /\ written[1].meta.transform = written[1].data.trans

====
